---- MODULE Spec2Model ----
(***************************************************************************)
(* The evaluation loops of LLM-T2T: evaluate_lotnlg (evaluate_lotnlg.py    *)
(* and evaluate_logicnlg.py), evaluate_fetaqa, and the three LLM-Judge     *)
(* loops evaluate_all, evaluate_all_fetaqa and evaluate_all_lotnlg.        *)
(*                                                                         *)
(* Strings are sequences of one-character strings.  Scores are kept as     *)
(* integers in units of 1/ScoreUnit, a finalized metric as the rational    *)
(* num/den.  External capabilities (entailment classifier, ROUGE, BLEU,    *)
(* chat completion) return a value or raise, nondeterministically.         *)
(***************************************************************************)
EXTENDS Integers, Sequences, FiniteSets, TLC

MaxPreds == 2
MaxGold == 2
ScoreUnit == 2
MaxAnswerPieces == 3
MaxTextPieces == 4
MaxTypePieces == 3
MaxTextLen == 2000
MaxListLen == 2

\* ------------------------------------------------------------------------
\* Values
\* ------------------------------------------------------------------------

\* A JSON value found under the key field of a gold record: absent, an
\* integer, or a string.
KNone == [tag |-> "none", n |-> 0, s |-> <<>>]
KInt(k) == [tag |-> "int", n |-> k, s |-> <<>>]
KStr(str) == [tag |-> "str", n |-> 0, s |-> str]

Digit == <<"0", "1", "2", "3", "4", "5", "6", "7", "8", "9">>

\* Python str() of a non-negative int: its decimal digits.
RECURSIVE IntToStr(_)
IntToStr(k) ==
    IF k < 10 THEN <<Digit[k + 1]>>
    ELSE IntToStr(k \div 10) \o <<Digit[(k % 10) + 1]>>

\* Python str() of a key value.
str(v) == IF v.tag = "int" THEN KStr(IntToStr(v.n)) ELSE v

\* Python truthiness of a key value (`if csv_id:`).
Truthy(v) ==
    \/ v.tag = "int" /\ v.n # 0
    \/ v.tag = "str" /\ v.s # <<>>

\* ------------------------------------------------------------------------
\* The six evaluation scripts
\* ------------------------------------------------------------------------
LotVariants == {"lotnlg", "logicnlg"}
MetricVariants == LotVariants \cup {"fetaqa"}
JudgeVariants == {"cot", "cot_fetaqa", "cot_lotnlg"}
Variants == MetricVariants \cup JudgeVariants

\* The variants that index gold under str(feta_id); the others index under
\* the raw csv_id.
FetaVariants == {"fetaqa", "cot_fetaqa"}

\* ------------------------------------------------------------------------
\* Inputs
\* ------------------------------------------------------------------------
PredKeys == {<<"t", "1">>, <<"5">>, <<"0">>}

\* The shape of a prediction value: a string, a list of strings, or a list
\* holding a non-string (on which ' '.join raises TypeError).
PredKinds == {"str", "list", "badlist"}

GoldItem(k, tt, ref, lab) ==
    [key |-> k, table_text |-> tt, ref |-> ref, logical_labels |-> lab]

GoldItems ==
    { GoldItem(KStr(<<"t", "1">>), "str", "str", "present"),
      GoldItem(KStr(<<"5">>), "str", "str", "missing"),
      GoldItem(KInt(5), "str", "str", "present"),
      GoldItem(KInt(0), "str", "str", "present"),
      GoldItem(KNone, "str", "str", "present"),
      GoldItem(KStr(<<"t", "1">>), "missing", "str", "present"),
      GoldItem(KStr(<<"5">>), "nonstr", "str", "present"),
      GoldItem(KStr(<<"t", "1">>), "str", "missing", "present") }

SeqsUpTo(S, n) == UNION {[1..m -> S] : m \in 0..n}

\* A prediction map: JSON object keys are distinct strings, iterated in
\* insertion order.
PredictionMaps ==
    {p \in SeqsUpTo(PredKeys, MaxPreds) :
        \A a, b \in 1..Len(p) : a # b => p[a] # p[b]}

GoldSets == SeqsUpTo(GoldItems, MaxGold)

Overlap == 0..ScoreUnit

VARIABLES
    variant,            \* which script runs
    predictions,        \* the keys of the prediction map, in order
    gold_data,          \* the gold records, in order
    csv_id_to_gold,     \* the join index (feta_id_to_gold in the FeTaQA scripts)
    has_logical_labels,
    pc,                 \* position in the script
    i,                  \* number of predictions visited so far
    results,            \* running sums per metric (total_score in the judges)
    total,              \* total (total_count in the judges)
    not_found,
    report,             \* the returned percentages
    answer,             \* text content of the judge response
    score,              \* value returned by evaluate_single*
    outstanding,        \* external chat-completion calls in flight
    paced,              \* sleep(0.5) has run since the last call completed
    call_status,        \* fate of the current example's external call
    invoked,            \* a scorer was invoked for the current example
    raised,             \* the loop's except clause has run
    outcome,            \* how the last visited prediction ended
    snap,               \* results and total when the current example started
    skipped,            \* predictions ended by the loop's except clause
    pred_text,          \* a text handed to one of the text functions
    gold_fields,        \* the gold record's fields the text function reads
    out                 \* what the text function made of it

vars == <<variant, predictions, gold_data, csv_id_to_gold, has_logical_labels,
          pc, i, results, total, not_found, report, answer, score,
          outstanding, paced, call_status, invoked, raised, outcome, snap,
          skipped, pred_text, gold_fields, out>>

\* ------------------------------------------------------------------------
\* Index construction
\* ------------------------------------------------------------------------

\* The key under which a gold record is stored.
IndexKey(v, k) == IF v \in FetaVariants THEN str(k) ELSE k

\* Whether a gold record enters the index (`if csv_id:` / `if feta_id:`).
Indexed(k) == Truthy(k)

\* The loop over gold_data.items(): later records overwrite earlier ones.
RECURSIVE BuildIndex(_, _, _)
BuildIndex(v, gold, n) ==
    IF n = 0 THEN [k \in {} |-> 0]
    ELSE LET prev == BuildIndex(v, gold, n - 1)
             g == gold[n]
             key == IndexKey(v, g.key)
         IN IF Indexed(g.key)
            THEN [k \in DOMAIN prev \cup {key} |->
                     IF k = key THEN g ELSE prev[k]]
            ELSE prev

Metrics(v, labels) ==
    IF v \in LotVariants
    THEN {"nli_acc", "rouge_l", "bleu"}
         \cup (IF labels THEN {"type_em"} ELSE {})
    ELSE IF v = "fetaqa" THEN {"rouge1", "rouge2", "rougeL", "bleu"}
    ELSE {"total_score"}

Init ==
    /\ variant \in Variants
    /\ predictions \in PredictionMaps
    /\ gold_data \in GoldSets
    /\ csv_id_to_gold = [k \in {} |-> 0]
    /\ has_logical_labels = FALSE
    /\ pc = "start"
    /\ i = 0
    /\ results = [m \in {} |-> 0]
    /\ total = 0
    /\ not_found = 0
    /\ report = [m \in {} |-> 0]
    /\ answer = <<>>
    /\ score = 0
    /\ outstanding = 0
    /\ paced = TRUE
    /\ call_status = "none"
    /\ invoked = FALSE
    /\ raised = FALSE
    /\ outcome = "none"
    /\ snap = [results |-> [m \in {} |-> 0], total |-> 0]
    /\ skipped = 0
    /\ pred_text = <<>>
    /\ gold_fields = <<>>
    /\ out = <<>>

\* Loading, index construction and initialisation of the accumulators.
\* evaluate_lotnlg reads next(iter(gold_data.values())), which raises
\* StopIteration on an empty gold set.
Setup ==
    /\ pc = "start"
    /\ IF variant \in LotVariants /\ Len(gold_data) = 0
       THEN /\ pc' = "aborted"
            /\ UNCHANGED <<csv_id_to_gold, has_logical_labels, results, snap>>
       ELSE LET labels == /\ variant \in LotVariants
                          /\ gold_data[1].logical_labels = "present"
                init == [m \in Metrics(variant, labels) |-> 0]
            IN /\ csv_id_to_gold' = BuildIndex(variant, gold_data, Len(gold_data))
               /\ has_logical_labels' = labels
               /\ results' = init
               /\ snap' = [results |-> init, total |-> 0]
               /\ pc' = "loop"
    /\ UNCHANGED <<skipped, pred_text, gold_fields, out>>
    /\ UNCHANGED <<variant, predictions, gold_data, i, total,
                   not_found, report, answer, score, outstanding, paced,
                   call_status, invoked, raised, outcome>>

\* ------------------------------------------------------------------------
\* The evaluation loop
\* ------------------------------------------------------------------------

\* The key of the prediction the loop is about to visit / is processing.
NextKey == KStr(predictions[i + 1])
CurKey == KStr(predictions[i])
gold_item == csv_id_to_gold[CurKey]

\* `csv_id not in csv_id_to_gold` for the prediction about to be visited.
Unmatched == NextKey \notin DOMAIN csv_id_to_gold

\* ' '.join(pred_data) raises TypeError on a list holding a non-string;
\* evaluate_all (cot_eval.py) passes the prediction on without joining.
JoinRaises(v, kind) == v # "cot" /\ kind = "badlist"

\* Reads of the gold record's fields ahead of the try block: subscripts
\* raise KeyError on a missing field, .get(..., '') does not.
GoldReadRaises(v, g) ==
    \/ v \in LotVariants /\ (g.table_text = "missing" \/ g.ref = "missing")
    \/ v = "fetaqa" /\ g.ref = "missing"
    \/ v = "cot" /\ g.table_text = "missing"

FirstTryPc(v) ==
    IF v \in LotVariants THEN "nli"
    ELSE IF v = "fetaqa" THEN "rouge"
    ELSE "call"

\* NotFound without `not_found += 1`.
NotFoundNoCount ==
    /\ pc = "loop"
    /\ i < Len(predictions)
    /\ Unmatched
    /\ i' = i + 1
    /\ invoked' = FALSE
    /\ call_status' = "none"
    /\ outcome' = "not_found"
    /\ UNCHANGED <<skipped, pred_text, gold_fields, out>>
    /\ UNCHANGED <<variant, predictions, gold_data, csv_id_to_gold,
                   has_logical_labels, pc, results, total, report,
                   answer, score, outstanding, paced, raised, snap, not_found>>

\* NotFound that also counts the prediction as evaluated.
NotFoundCountsTotal ==
    /\ pc = "loop"
    /\ i < Len(predictions)
    /\ Unmatched
    /\ not_found' = not_found + 1
    /\ total' = total + 1
    /\ i' = i + 1
    /\ invoked' = FALSE
    /\ call_status' = "none"
    /\ outcome' = "not_found"
    /\ UNCHANGED <<skipped, pred_text, gold_fields, out>>
    /\ UNCHANGED <<variant, predictions, gold_data, csv_id_to_gold,
                   has_logical_labels, pc, results, report,
                   answer, score, outstanding, paced, raised, snap>>

\* A prediction whose key is not in the index: counted and skipped.
NotFound ==
    /\ pc = "loop"
    /\ i < Len(predictions)
    /\ Unmatched
    /\ not_found' = not_found + 1
    /\ i' = i + 1
    /\ invoked' = FALSE
    /\ call_status' = "none"
    /\ outcome' = "not_found"
    /\ UNCHANGED <<skipped, pred_text, gold_fields, out>>
    /\ UNCHANGED <<variant, predictions, gold_data, csv_id_to_gold,
                   has_logical_labels, pc, results, total, report,
                   answer, score, outstanding, paced, raised, snap>>

\* A matched prediction: the statements between the membership test and the
\* try block.  An exception here is not caught and ends the run.
Matched ==
    /\ pc = "loop"
    /\ i < Len(predictions)
    /\ ~Unmatched
    /\ i' = i + 1
    /\ invoked' = FALSE
    /\ call_status' = "none"
    /\ outcome' = "none"
    /\ snap' = [results |-> results, total |-> total]
    /\ \E kind \in PredKinds :
          pc' = IF \/ JoinRaises(variant, kind)
                    \/ GoldReadRaises(variant, csv_id_to_gold[NextKey])
                 THEN "aborted"
                 ELSE FirstTryPc(variant)
    /\ UNCHANGED <<skipped, pred_text, gold_fields, out>>
    /\ UNCHANGED <<variant, predictions, gold_data, csv_id_to_gold,
                   has_logical_labels, results, total, not_found, report,
                   answer, score, outstanding, paced, raised>>

Add(m, v) == [results EXCEPT ![m] = @ + v]

\* The statement of the try block at pc raises without calling out:
\* slicing a table_text that is not a string, or subscripting a gold record
\* that has no logical_labels.
MustRaise(v, p, g) ==
    \/ p = "nli" /\ g.table_text = "nonstr"
    \/ p = "call" /\ v \in {"cot_fetaqa", "cot_lotnlg"} /\ g.table_text = "nonstr"
    \/ p = "type" /\ g.logical_labels = "missing"

\* The positions of the try block from which control can reach the loop's
\* except clause: the external scorers may raise, the rest only as above.
MayRaise(v, p, g) ==
    \/ p \in {"nli", "rouge", "bleu"}
    \/ MustRaise(v, p, g)

\* NLI faithfulness check.
ScoreNLI ==
    /\ pc = "nli"
    /\ ~MustRaise(variant, pc, gold_item)
    /\ \E entailment \in BOOLEAN :
         results' = Add("nli_acc", IF entailment THEN ScoreUnit ELSE 0)
    /\ invoked' = TRUE
    /\ pc' = "rouge"
    /\ UNCHANGED <<skipped, pred_text, gold_fields, out>>
    /\ UNCHANGED <<variant, predictions, gold_data, csv_id_to_gold,
                   has_logical_labels, i, total, not_found, report,
                   answer, score, outstanding, paced, call_status, raised,
                   outcome, snap>>

\* ROUGE: rouge_l in evaluate_lotnlg, rouge1/rouge2/rougeL in evaluate_fetaqa.
ScoreROUGE ==
    /\ pc = "rouge"
    /\ IF variant = "fetaqa"
       THEN \E r1, r2, rl \in Overlap :
              results' = [results EXCEPT !["rouge1"] = @ + r1,
                                         !["rouge2"] = @ + r2,
                                         !["rougeL"] = @ + rl]
       ELSE \E f \in Overlap : results' = Add("rouge_l", f)
    /\ invoked' = TRUE
    /\ pc' = "bleu"
    /\ UNCHANGED <<skipped, pred_text, gold_fields, out>>
    /\ UNCHANGED <<variant, predictions, gold_data, csv_id_to_gold,
                   has_logical_labels, i, total, not_found, report,
                   answer, score, outstanding, paced, call_status, raised,
                   outcome, snap>>

\* BLEU.
ScoreBLEU ==
    /\ pc = "bleu"
    /\ \E bleu \in Overlap : results' = Add("bleu", bleu)
    /\ invoked' = TRUE
    /\ pc' = IF variant \in LotVariants /\ has_logical_labels
             THEN "type" ELSE "count"
    /\ UNCHANGED <<skipped, pred_text, gold_fields, out>>
    /\ UNCHANGED <<variant, predictions, gold_data, csv_id_to_gold,
                   has_logical_labels, i, total, not_found, report,
                   answer, score, outstanding, paced, call_status, raised,
                   outcome, snap>>

\* Type matching against the gold logical label.
ScoreType ==
    /\ pc = "type"
    /\ ~MustRaise(variant, pc, gold_item)
    /\ \E match \in BOOLEAN :
         results' = Add("type_em", IF match THEN ScoreUnit ELSE 0)
    /\ invoked' = TRUE
    /\ pc' = "count"
    /\ UNCHANGED <<skipped, pred_text, gold_fields, out>>
    /\ UNCHANGED <<variant, predictions, gold_data, csv_id_to_gold,
                   has_logical_labels, i, total, not_found, report,
                   answer, score, outstanding, paced, call_status, raised,
                   outcome, snap>>

\* total += 1, the last statement of the try block.
CountExample ==
    /\ pc = "count"
    /\ total' = total + 1
    /\ outcome' = "scored"
    /\ snap' = [results |-> results, total |-> total + 1]
    /\ pc' = "loop"
    /\ UNCHANGED <<skipped, pred_text, gold_fields, out>>
    /\ UNCHANGED <<variant, predictions, gold_data, csv_id_to_gold,
                   has_logical_labels, i, results, not_found, report, answer,
                   score, outstanding, paced, call_status, invoked, raised>>

\* `except Exception: continue` of the loop, entered from a statement of
\* the try block that raised.
CatchException ==
    /\ MayRaise(variant, pc, gold_item)
    /\ raised' = TRUE
    /\ outcome' = "skipped"
    /\ skipped' = skipped + 1
    /\ invoked' = (invoked \/ pc \in {"nli", "rouge", "bleu"})
    /\ snap' = [results |-> results, total |-> total]
    /\ pc' = "loop"
    /\ UNCHANGED <<pred_text, gold_fields, out>>
    /\ UNCHANGED <<variant, predictions, gold_data, csv_id_to_gold,
                   has_logical_labels, i, results, total, not_found, report,
                   answer, score, outstanding, paced, call_status>>

\* ------------------------------------------------------------------------
\* The LLM judge
\* ------------------------------------------------------------------------
FAITHFUL == <<"F", "A", "I", "T", "H", "F", "U", "L">>
NOT_FAITHFUL == <<"N", "O", "T", " ">> \o FAITHFUL
CORRECT == <<"C", "O", "R", "R", "E", "C", "T">>
INCORRECT == <<"I", "N">> \o CORRECT

\* The verdict tokens a script searches the response for.
PositiveToken(v) == IF v = "cot_fetaqa" THEN CORRECT ELSE FAITHFUL
NegativeToken(v) == IF v = "cot_fetaqa" THEN INCORRECT ELSE NOT_FAITHFUL

\* Python `sub in text`.
In(sub, text) ==
    \E p \in 1..(Len(text) - Len(sub) + 1) :
        SubSeq(text, p, p + Len(sub) - 1) = sub

\* ParseVerdict without the test for the negative token.
ParseVerdictPositiveOnly(v, text) ==
    IF In(PositiveToken(v), text) THEN 1 ELSE 0

\* if POSITIVE in answer and NEGATIVE not in answer: return 1 else: return 0
ParseVerdict(v, text) ==
    IF In(PositiveToken(v), text) /\ ~In(NegativeToken(v), text) THEN 1 ELSE 0

\* Judge responses: up to MaxAnswerPieces fragments, each a verdict word,
\* the prefix that turns it into the negative token, or filler.
Pieces(v) ==
    IF v = "cot_fetaqa"
    THEN {CORRECT, <<"I", "N">>, <<" ", "x", " ">>}
    ELSE {FAITHFUL, <<"N", "O", "T", " ">>, <<" ", "x", " ">>}

RECURSIVE Concat(_)
Concat(ps) == IF ps = <<>> THEN <<>> ELSE Head(ps) \o Concat(Tail(ps))

Answers(v) == {Concat(ps) : ps \in SeqsUpTo(Pieces(v), MaxAnswerPieces)}

\* openai.ChatCompletion.create is entered.  The two later scripts first
\* truncate table_text and the prediction inside the try block.
IssueCall ==
    /\ pc = "call"
    /\ ~MustRaise(variant, pc, gold_item)
    /\ outstanding' = outstanding + 1
    /\ invoked' = TRUE
    /\ pc' = "await"
    /\ UNCHANGED <<skipped, pred_text, gold_fields, out>>
    /\ UNCHANGED <<variant, predictions, gold_data, csv_id_to_gold,
                   has_logical_labels, i, results, total, not_found,
                   report, answer, score, paced, call_status, raised, outcome,
                   snap>>

\* The call returns and the text content is extracted.
CallReturns ==
    /\ pc = "await"
    /\ outstanding' = outstanding - 1
    /\ paced' = FALSE
    /\ call_status' = "ok"
    /\ \E text \in Answers(variant) : answer' = text
    /\ pc' = "parse"
    /\ UNCHANGED <<skipped, pred_text, gold_fields, out>>
    /\ UNCHANGED <<variant, predictions, gold_data, csv_id_to_gold,
                   has_logical_labels, i, results, total, not_found,
                   report, score, invoked, raised, outcome, snap>>

\* The call, or the extraction of its content, raises.  evaluate_single lets
\* the exception reach the loop's except clause; evaluate_single_fetaqa and
\* evaluate_single_lotnlg catch it themselves and return 0.
CallFails ==
    /\ pc = "await"
    /\ outstanding' = outstanding - 1
    /\ paced' = FALSE
    /\ call_status' = "failed"
    /\ IF variant = "cot"
       THEN /\ raised' = TRUE
            /\ outcome' = "skipped"
            /\ skipped' = skipped + 1
                    /\ pc' = "loop"
            /\ UNCHANGED score
       ELSE /\ score' = 0
            /\ pc' = "accum"
            /\ UNCHANGED <<raised, outcome, skipped>>
    /\ UNCHANGED <<pred_text, gold_fields, out>>
    /\ UNCHANGED <<variant, predictions, gold_data, csv_id_to_gold,
                   has_logical_labels, i, results, total, not_found, report,
                   answer, invoked, snap>>

\* The verdict is read off the response.
ReadVerdict ==
    /\ pc = "parse"
    /\ score' = ParseVerdict(variant, answer)
    /\ pc' = "accum"
    /\ UNCHANGED <<skipped, pred_text, gold_fields, out>>
    /\ UNCHANGED <<variant, predictions, gold_data, csv_id_to_gold,
                   has_logical_labels, i, results, total, not_found,
                   report, answer, outstanding, paced, call_status, invoked,
                   raised, outcome, snap>>

\* total_score += score; total_count += 1
Accumulate ==
    /\ pc = "accum"
    /\ results' = Add("total_score", score * ScoreUnit)
    /\ total' = total + 1
    /\ pc' = "sleep"
    /\ UNCHANGED <<skipped, pred_text, gold_fields, out>>
    /\ UNCHANGED <<variant, predictions, gold_data, csv_id_to_gold,
                   has_logical_labels, i, not_found, report, answer,
                   score, outstanding, paced, call_status, invoked, raised,
                   outcome, snap>>

\* await asyncio.sleep(0.5), the last statement of the try block.
Sleep ==
    /\ pc = "sleep"
    /\ paced' = TRUE
    /\ outcome' = "scored"
    /\ answer' = <<>>
    /\ score' = 0
    /\ snap' = [results |-> results, total |-> total]
    /\ pc' = "loop"
    /\ UNCHANGED <<skipped, pred_text, gold_fields, out>>
    /\ UNCHANGED <<variant, predictions, gold_data, csv_id_to_gold,
                   has_logical_labels, i, results, total, not_found, report,
                   outstanding, call_status, invoked, raised>>

\* ------------------------------------------------------------------------
\* Finalization
\* ------------------------------------------------------------------------
Ratio(n, d) == [num |-> n, den |-> d]

\* The metric scripts divide only `if total > 0` and otherwise return the
\* sums as they are; the judges return `... if total_count > 0 else 0`.
Percentages(v, sums, n) ==
    IF v \in MetricVariants
    THEN [m \in DOMAIN sums |->
            IF n > 0 THEN Ratio(sums[m] * 100, n * ScoreUnit)
            ELSE Ratio(sums[m], ScoreUnit)]
    ELSE [m \in {"accuracy"} |->
            IF n > 0 THEN Ratio(sums["total_score"] * 100, n * ScoreUnit)
            ELSE Ratio(0, 1)]

\* The loop is exhausted: percentages are computed and the report returned.
Finalize ==
    /\ pc = "loop"
    /\ i = Len(predictions)
    /\ report' = Percentages(variant, results, total)
    /\ pc' = "done"
    /\ UNCHANGED <<skipped, pred_text, gold_fields, out>>
    /\ UNCHANGED <<variant, predictions, gold_data, csv_id_to_gold,
                   has_logical_labels, i, results, total, not_found,
                   answer, score, outstanding, paced, call_status, invoked,
                   raised, outcome, snap>>

Next ==
    \/ Setup
    \/ NotFound
    \/ Matched
    \/ ScoreNLI
    \/ ScoreROUGE
    \/ ScoreBLEU
    \/ ScoreType
    \/ CountExample
    \/ CatchException
    \/ IssueCall
    \/ CallReturns
    \/ CallFails
    \/ ReadVerdict
    \/ Accumulate
    \/ Sleep
    \/ Finalize

Spec == Init /\ [][Next]_vars

\* ------------------------------------------------------------------------
\* Text functions, each run on its own from a bounded set of texts
\* ------------------------------------------------------------------------

\* The evaluation loop's variables while a text function is studied alone.
LoopIdle ==
    /\ predictions = <<>>
    /\ gold_data = <<>>
    /\ csv_id_to_gold = [k \in {} |-> 0]
    /\ has_logical_labels = FALSE
    /\ i = 0
    /\ results = [m \in {} |-> 0]
    /\ total = 0
    /\ not_found = 0
    /\ report = [m \in {} |-> 0]
    /\ answer = <<>>
    /\ score = 0
    /\ outstanding = 0
    /\ paced = TRUE
    /\ call_status = "none"
    /\ invoked = FALSE
    /\ raised = FALSE
    /\ outcome = "none"
    /\ snap = [results |-> [m \in {} |-> 0], total |-> 0]
    /\ skipped = 0

loopvars == <<predictions, gold_data, csv_id_to_gold, has_logical_labels, i,
              results, total, not_found, report, answer, score, outstanding,
              paced, call_status, invoked, raised, outcome, snap, skipped>>

\* Regular-expression classes.
IsSpace(c) == c \in {" ", "\t", "\n"}
IsDigit(c) == c \in {"0", "1", "2", "3", "4", "5", "6", "7", "8", "9"}

\* sub occurs in text starting at position p.
MatchAt(sub, text, p) ==
    /\ p >= 1
    /\ p + Len(sub) - 1 <= Len(text)
    /\ SubSeq(text, p, p + Len(sub) - 1) = sub

\* The first position from p on that holds no whitespace (Len + 1 if none).
RECURSIVE SkipSpaces(_, _)
SkipSpaces(text, p) ==
    IF p <= Len(text) /\ IsSpace(text[p]) THEN SkipSpaces(text, p + 1) ELSE p

\* The first position from p on that holds c, 0 if there is none.
FindChar(c, text, p) ==
    LET S == {q \in p..Len(text) : text[q] = c}
    IN IF S = {} THEN 0 ELSE CHOOSE q \in S : \A r \in S : q <= r

\* ' '.join(parts)
RECURSIVE JoinSpace(_)
JoinSpace(parts) ==
    IF parts = <<>> THEN <<>>
    ELSE IF Len(parts) = 1 THEN parts[1]
    ELSE parts[1] \o <<" ">> \o JoinSpace(Tail(parts))

\* re.sub(r'##\s+', '', text), scanning from position p.
RECURSIVE SubHeaders(_, _)
SubHeaders(text, p) ==
    IF p > Len(text) THEN <<>>
    ELSE IF /\ MatchAt(<<"#", "#">>, text, p)
            /\ p + 2 <= Len(text)
            /\ IsSpace(text[p + 2])
         THEN SubHeaders(text, SkipSpaces(text, p + 2))
         ELSE <<text[p]>> \o SubHeaders(text, p + 1)

CLAIM_ == <<"C", "l", "a", "i", "m", " ">>
REASONING == <<"R", "e", "a", "s", "o", "n", "i", "n", "g">>

\* A match of r'Claim \d+[^:]*:\s*([^\.]+\.)' starting at p: [^:]* stops at
\* the first colon, the group ends at the first full stop after it, and \s*
\* gives one whitespace character back when nothing else precedes the stop.
ClaimAt(text, p) ==
    LET d == p + Len(CLAIM_)
        c == FindChar(":", text, d + 1)
        s == SkipSpaces(text, c + 1)
        dot == FindChar(".", text, c + 1)
        from == IF dot > s THEN s ELSE s - 1
    IN IF /\ MatchAt(CLAIM_, text, p)
          /\ d <= Len(text)
          /\ IsDigit(text[d])
          /\ c # 0
          /\ dot # 0
          /\ from > c
       THEN [ok |-> TRUE, group |-> SubSeq(text, from, dot), end |-> dot]
       ELSE [ok |-> FALSE, group |-> <<>>, end |-> 0]

\* re.findall of the claim pattern, scanning from position p.
RECURSIVE FindClaims(_, _)
FindClaims(text, p) ==
    IF p > Len(text) THEN <<>>
    ELSE LET m == ClaimAt(text, p)
         IN IF m.ok THEN <<m.group>> \o FindClaims(text, m.end + 1)
            ELSE FindClaims(text, p + 1)

\* claims = re.findall(...); if claims: pred_text = ' '.join(claims)
ExtractClaims(text) ==
    LET claims == FindClaims(text, 1)
    IN IF claims # <<>> THEN JoinSpace(claims) ELSE text

\* re.sub(r'Reasoning[^:]*:[^\.]+\.', '', text), scanning from position p.
RECURSIVE SubReasoning(_, _)
SubReasoning(text, p) ==
    IF p > Len(text) THEN <<>>
    ELSE LET c == FindChar(":", text, p + Len(REASONING))
             dot == FindChar(".", text, c + 1)
         IN IF /\ MatchAt(REASONING, text, p)
               /\ c # 0
               /\ dot > c + 1
            THEN SubReasoning(text, dot + 1)
            ELSE <<text[p]>> \o SubReasoning(text, p + 1)

\* re.sub(r'\*\*([^\*]+)\*\*', r'\1', text), scanning from position p.
RECURSIVE SubBold(_, _)
SubBold(text, p) ==
    IF p > Len(text) THEN <<>>
    ELSE LET star == FindChar("*", text, p + 2)
         IN IF /\ MatchAt(<<"*", "*">>, text, p)
               /\ star > p + 2
               /\ MatchAt(<<"*", "*">>, text, star)
            THEN SubSeq(text, p + 2, star - 1) \o SubBold(text, star + 2)
            ELSE <<text[p]>> \o SubBold(text, p + 1)

\* ' '.join(text.split()), scanning from position p with acc built so far.
RECURSIVE CollapseSpaces(_, _, _)
CollapseSpaces(text, p, acc) ==
    IF p > Len(text) THEN acc
    ELSE IF IsSpace(text[p])
         THEN LET q == SkipSpaces(text, p)
              IN CollapseSpaces(text, q,
                    IF acc # <<>> /\ q <= Len(text) THEN acc \o <<" ">> ELSE acc)
         ELSE CollapseSpaces(text, p + 1, acc \o <<text[p]>>)

clean_prediction_text(text) ==
    LET t1 == SubHeaders(text, 1)
        t2 == ExtractClaims(t1)
        t3 == SubReasoning(t2, 1)
        t4 == SubBold(t3, 1)
    IN CollapseSpaces(t4, 1, <<>>)

\* Prediction texts: up to MaxTextPieces fragments of markdown, claim and
\* reasoning scaffolding, and filler.
TextPieces ==
    { <<"#">>, <<"#", "#">>, <<" ">>, <<"*", "*">>, <<"x">>, <<".">>,
      CLAIM_ \o <<"1", ":">>, REASONING \o <<":">> }

Texts == {Concat(ps) : ps \in SeqsUpTo(TextPieces, MaxTextPieces)}

InitClean ==
    /\ LoopIdle
    /\ variant = "lotnlg"
    /\ pc = "clean"
    /\ pred_text \in Texts
    /\ gold_fields = <<>>
    /\ out = <<>>

\* The normalizer is applied to the text, then to its own result.
Normalize ==
    /\ pc = "clean"
    /\ Len(out) < 2
    /\ out' = Append(out, clean_prediction_text(
                              IF out = <<>> THEN pred_text ELSE out[Len(out)]))
    /\ UNCHANGED <<variant, pc, pred_text, gold_fields>>
    /\ UNCHANGED loopvars

SpecClean == InitClean /\ [][Normalize]_vars

\* ------------------------------------------------------------------------
\* The keyword-type classifier
\* ------------------------------------------------------------------------
UpperCase == <<"A", "B", "C", "D", "E", "F", "G", "H", "I", "J", "K", "L", "M">>
             \o <<"N", "O", "P", "Q", "R", "S", "T", "U", "V", "W", "X", "Y", "Z">>
LowerCase == <<"a", "b", "c", "d", "e", "f", "g", "h", "i", "j", "k", "l", "m">>
             \o <<"n", "o", "p", "q", "r", "s", "t", "u", "v", "w", "x", "y", "z">>

\* str.lower()
LowerChar(c) ==
    IF \E k \in 1..Len(UpperCase) : UpperCase[k] = c
    THEN LowerCase[CHOOSE k \in 1..Len(UpperCase) : UpperCase[k] = c]
    ELSE c

Lower(text) == [k \in 1..Len(text) |-> LowerChar(text[k])]

\* str.strip()
Strip(text) ==
    LET S == {k \in 1..Len(text) : ~IsSpace(text[k])}
    IN IF S = {} THEN <<>>
       ELSE SubSeq(text, CHOOSE a \in S : \A b \in S : a <= b,
                         CHOOSE a \in S : \A b \in S : a >= b)

\* type_keywords of evaluate_lotnlg.py, in declaration order.
TypeKeywordsLot ==
    <<
       [type_name |-> <<"a", "g", "g", "r", "e", "g", "a", "t", "i", "o", "n">>,
        keywords |-> <<<<"t", "o", "t", "a", "l">>,
                      <<"s", "u", "m">>,
                      <<"a", "v", "e", "r", "a", "g", "e">>,
                      <<"m", "e", "a", "n">>,
                      <<"a", "g", "g", "r", "e", "g", "a", "t", "e">>>>],
       [type_name |-> <<"s", "u", "p", "e", "r", "l", "a", "t", "i", "v", "e">>,
        keywords |-> <<<<"m", "o", "s", "t">>,
                      <<"h", "i", "g", "h", "e", "s", "t">>,
                      <<"l", "o", "w", "e", "s", "t">>,
                      <<"b", "e", "s", "t">>,
                      <<"w", "o", "r", "s", "t">>,
                      <<"m", "a", "x", "i", "m", "u", "m">>,
                      <<"m", "i", "n", "i", "m", "u", "m">>,
                      <<"l", "a", "r", "g", "e", "s", "t">>,
                      <<"s", "m", "a", "l", "l", "e", "s", "t">>,
                      <<"s", "u", "p", "e", "r", "l", "a", "t", "i", "v", "e">>>>],
       [type_name |-> <<"c", "o", "u", "n", "t">>,
        keywords |-> <<<<"n", "u", "m", "b", "e", "r", " ", "o", "f">>,
                      <<"c", "o", "u", "n", "t">>,
                      <<"h", "o", "w", " ", "m", "a", "n", "y">>,
                      <<"t", "h", "e", "r", "e", " ", "a", "r", "e">>,
                      <<"c", "o", "u", "n", "t", ":">>>>],
       [type_name |-> <<"c", "o", "m", "p", "a", "r", "a", "t", "i", "v", "e">>,
        keywords |-> <<<<"m", "o", "r", "e", " ", "t", "h", "a", "n">>,
                      <<"l", "e", "s", "s", " ", "t", "h", "a", "n">>,
                      <<"g", "r", "e", "a", "t", "e", "r">>,
                      <<"h", "i", "g", "h", "e", "r">>,
                      <<"l", "o", "w", "e", "r">>,
                      <<"c", "o", "m", "p", "a", "r", "a", "t", "i", "v", "e", ":">>,
                      <<"c", "o", "m", "p", "a", "r", "e", "d">>>>],
       [type_name |-> <<"o", "r", "d", "i", "n", "a", "l">>,
        keywords |-> <<<<"f", "i", "r", "s", "t">>,
                      <<"s", "e", "c", "o", "n", "d">>,
                      <<"t", "h", "i", "r", "d">>,
                      <<"l", "a", "s", "t">>,
                      <<"o", "r", "d", "i", "n", "a", "l", ":">>>>],
       [type_name |-> <<"u", "n", "i", "q", "u", "e">>,
        keywords |-> <<<<"d", "i", "f", "f", "e", "r", "e", "n", "t">>,
                      <<"u", "n", "i", "q", "u", "e">>,
                      <<"d", "i", "s", "t", "i", "n", "c", "t">>,
                      <<"u", "n", "i", "q", "u", "e", ":">>>>],
       [type_name |-> <<"n", "e", "g", "a", "t", "i", "o", "n">>,
        keywords |-> <<<<"n", "o", "t">>,
                      <<"n", "o">>,
                      <<"n", "e", "v", "e", "r">>,
                      <<"d", "i", "d", " ", "n", "o", "t">>,
                      <<"n", "e", "g", "a", "t", "i", "o", "n", ":">>>>]
    >>

\* type_keywords of evaluate_logicnlg.py, in declaration order.
TypeKeywordsLogic ==
    <<
       [type_name |-> <<"a", "g", "g", "r", "e", "g", "a", "t", "i", "o", "n">>,
        keywords |-> <<<<"t", "o", "t", "a", "l">>,
                      <<"s", "u", "m">>,
                      <<"a", "v", "e", "r", "a", "g", "e">>,
                      <<"m", "e", "a", "n">>>>],
       [type_name |-> <<"s", "u", "p", "e", "r", "l", "a", "t", "i", "v", "e">>,
        keywords |-> <<<<"m", "o", "s", "t">>,
                      <<"h", "i", "g", "h", "e", "s", "t">>,
                      <<"l", "o", "w", "e", "s", "t">>,
                      <<"b", "e", "s", "t">>,
                      <<"w", "o", "r", "s", "t">>>>],
       [type_name |-> <<"c", "o", "u", "n", "t">>,
        keywords |-> <<<<"n", "u", "m", "b", "e", "r", " ", "o", "f">>,
                      <<"c", "o", "u", "n", "t">>,
                      <<"h", "o", "w", " ", "m", "a", "n", "y">>>>],
       [type_name |-> <<"c", "o", "m", "p", "a", "r", "a", "t", "i", "v", "e">>,
        keywords |-> <<<<"m", "o", "r", "e", " ", "t", "h", "a", "n">>,
                      <<"l", "e", "s", "s", " ", "t", "h", "a", "n">>,
                      <<"g", "r", "e", "a", "t", "e", "r">>,
                      <<"h", "i", "g", "h", "e", "r">>,
                      <<"l", "o", "w", "e", "r">>>>],
       [type_name |-> <<"o", "r", "d", "i", "n", "a", "l">>,
        keywords |-> <<<<"f", "i", "r", "s", "t">>,
                      <<"s", "e", "c", "o", "n", "d">>,
                      <<"t", "h", "i", "r", "d">>,
                      <<"l", "a", "s", "t">>>>],
       [type_name |-> <<"u", "n", "i", "q", "u", "e">>,
        keywords |-> <<<<"d", "i", "f", "f", "e", "r", "e", "n", "t">>,
                      <<"u", "n", "i", "q", "u", "e">>,
                      <<"d", "i", "s", "t", "i", "n", "c", "t">>>>],
       [type_name |-> <<"n", "e", "g", "a", "t", "i", "o", "n">>,
        keywords |-> <<<<"n", "o", "t">>,
                      <<"n", "o">>,
                      <<"n", "e", "v", "e", "r">>,
                      <<"d", "i", "d", " ", "n", "o", "t">>>>]
    >>

TypeKeywords(v) == IF v = "lotnlg" THEN TypeKeywordsLot ELSE TypeKeywordsLogic

SURFACE_LEVEL == <<"s", "u", "r", "f", "a", "c", "e", "-", "l", "e", "v", "e", "l">>

\* The first category, in declaration order, one of whose keywords occurs in
\* the lower-cased text; 'surface-level' when there is none.
KeywordType(v, text) ==
    LET tbl == TypeKeywords(v)
        low == Lower(text)
        hits == {k \in 1..Len(tbl) :
                   \E j \in 1..Len(tbl[k].keywords) : In(tbl[k].keywords[j], low)}
    IN IF hits = {} THEN SURFACE_LEVEL
       ELSE tbl[CHOOSE k \in hits : \A h \in hits : k <= h].type_name

\* A match of r'\(([^)]+)\):' starting at p: the group runs to the first ')'.
LabelAt(text, p) ==
    LET q == FindChar(")", text, p + 1)
    IN /\ p <= Len(text)
       /\ text[p] = "("
       /\ q > p + 1
       /\ MatchAt(<<")", ":">>, text, q)

\* re.search(r'\(([^)]+)\):', text): the leftmost match, if any.
ExplicitLabel(text) ==
    LET S == {p \in 1..Len(text) : LabelAt(text, p)}
    IN IF S = {} THEN [found |-> FALSE, label |-> <<>>]
       ELSE LET p == CHOOSE a \in S : \A b \in S : a <= b
            IN [found |-> TRUE,
                label |-> SubSeq(text, p + 1, FindChar(")", text, p + 1) - 1)]

\* pred_type: evaluate_lotnlg.py looks for an explicit label first,
\* evaluate_logicnlg.py infers from keywords only.
PredType(v, text) ==
    IF v = "lotnlg" /\ ExplicitLabel(text).found
    THEN Strip(Lower(ExplicitLabel(text).label))
    ELSE KeywordType(v, text)

\* gold_type: the first label of a list, else str(gold_labels).
GoldType(labels) == IF labels.list THEN labels.items[1] ELSE labels.value

\* The test that guards results['type_em'] += 1.
TypeMatches(v, pred_type, gold_type) ==
    IF v = "lotnlg"
    THEN \/ In(Lower(pred_type), Lower(gold_type))
         \/ In(Lower(gold_type), Lower(pred_type))
    ELSE In(Lower(pred_type), Lower(gold_type))

\* Prediction texts for the classifier.
TypePieces ==
    { <<"(", " ", "C", "o", "u", "n", "t", ")", ":">>,
      <<"(", "x", ")">>,
      <<"T", "o", "t", "a", "l", " ">>,
      <<"f", "i", "r", "s", "t", " ">>,
      <<"d", "i", "d", " ", "n", "o", "t", " ">>,
      <<"x">>, <<":">> }

TypeTexts == {Concat(ps) : ps \in SeqsUpTo(TypePieces, MaxTypePieces)}

\* Gold logical_labels: a single label or a list of labels.
SingleLabel(l) == [list |-> FALSE, value |-> l]
LabelList(ls) == [list |-> TRUE, items |-> ls]

GoldLabels ==
    { SingleLabel(<<"C", "o", "u", "n", "t">>),
      SingleLabel(<<"a", "g", "g", "r", "e", "g", "a", "t", "i", "o", "n">>),
      SingleLabel(<<"s", "u", "r", "f", "a", "c", "e">>),
      SingleLabel(<<"O", "r", "d", "i", "n", "a", "l", ";", "n", "e", "g", "a", "t", "i", "o", "n">>),
      LabelList(<<<<"x">>, <<"c", "o", "u", "n", "t">>>>),
      LabelList(<<<<"n", "e", "g", "a", "t", "i", "o", "n">>, <<"x">>>>) }

InitType ==
    /\ LoopIdle
    /\ variant \in LotVariants
    /\ pc = "type"
    /\ pred_text \in TypeTexts
    /\ gold_fields \in [logical_labels : GoldLabels]
    /\ out = <<>>

\* The type-matching block of the try body, on one prediction text and one
\* gold label.
Classify ==
    /\ pc = "type"
    /\ LET pred_type == PredType(variant, pred_text)
           gold_type == GoldType(gold_fields.logical_labels)
       IN out' = [pred_type |-> pred_type,
                  type_em |-> IF TypeMatches(variant, pred_type, gold_type)
                              THEN 1 ELSE 0]
    /\ pc' = "typed"
    /\ UNCHANGED <<variant, pred_text, gold_fields>>
    /\ UNCHANGED loopvars

SpecType == InitType /\ [][Classify]_vars

\* ------------------------------------------------------------------------
\* The judge prompt
\* ------------------------------------------------------------------------
\* Only the length of a text matters here: a text is its length, and the
\* slice text[:k] is the prefix of length min(len, k).
TableLimit == 1500
PredLimitFetaqa == 500
RefLimitFetaqa == 500
PredLimitLotnlg == 800

Slice(len, k) == IF len < k THEN len ELSE k

\* len(' '.join(items)) for a list of strings of the given lengths.
RECURSIVE JoinedLen(_)
JoinedLen(lens) ==
    IF lens = <<>> THEN 0
    ELSE IF Len(lens) = 1 THEN lens[1]
    ELSE lens[1] + 1 + JoinedLen(Tail(lens))

\* len(repr(items)) for a list of strings free of quotes and backslashes:
\* brackets, each item in quotes, ', ' between items.
RECURSIVE SumLens(_)
SumLens(lens) == IF lens = <<>> THEN 0 ELSE lens[1] + 2 + SumLens(Tail(lens))

ReprLen(lens) ==
    2 + SumLens(lens) + (IF Len(lens) > 1 THEN 2 * (Len(lens) - 1) ELSE 0)

\* A prediction value: one string or a list of strings.
SinglePred(len) == [list |-> FALSE, len |-> len]
MultiPred(lens) == [list |-> TRUE, lens |-> lens]

\* The text embedded as the statement / predicted answer.  evaluate_all
\* formats the prediction as it is (a list through its repr) and does not
\* slice; the later scripts join a list and slice the effective string.
Statement(v, pred) ==
    IF v = "cot"
    THEN IF pred.list THEN [form |-> "repr", len |-> ReprLen(pred.lens)]
         ELSE [form |-> "string", len |-> pred.len]
    ELSE LET effective == IF pred.list THEN JoinedLen(pred.lens) ELSE pred.len
             limit == IF v = "cot_fetaqa" THEN PredLimitFetaqa
                      ELSE PredLimitLotnlg
         IN [form |-> IF pred.list THEN "joined" ELSE "string",
             len |-> Slice(effective, limit)]

\* The table text embedded in the prompt.
PromptTable(v, table_len) ==
    IF v = "cot" THEN table_len ELSE Slice(table_len, TableLimit)

\* The texts embedded in the prompt; the reference only in the FeTaQA prompt.
Prompt(v, pred, gold) ==
    IF v = "cot_fetaqa"
    THEN [table |-> PromptTable(v, gold.table_text),
          statement |-> Statement(v, pred),
          reference |-> Slice(gold.answer, RefLimitFetaqa)]
    ELSE [table |-> PromptTable(v, gold.table_text),
          statement |-> Statement(v, pred)]

\* Text lengths around the slice limits, up to MaxTextLen.
TextLens ==
    {0, 1, MaxTextLen}
    \cup UNION {{k - 1, k, k + 1} : k \in {500, 800, TableLimit}}

ListLens == {0, 1, 400, MaxTextLen}

PredValues ==
    {SinglePred(n) : n \in TextLens}
    \cup {MultiPred(ls) : ls \in SeqsUpTo(ListLens, MaxListLen)}

InitPrompt ==
    /\ LoopIdle
    /\ variant \in JudgeVariants
    /\ pc = "prompt"
    /\ pred_text \in PredValues
    /\ gold_fields \in [table_text : TextLens, answer : TextLens]
    /\ out = <<>>

\* The prompt of one matched example is put together.
BuildPrompt ==
    /\ pc = "prompt"
    /\ out' = Prompt(variant, pred_text, gold_fields)
    /\ pc' = "prompted"
    /\ UNCHANGED <<variant, pred_text, gold_fields>>
    /\ UNCHANGED loopvars

SpecPrompt == InitPrompt /\ [][BuildPrompt]_vars

\* ------------------------------------------------------------------------
\* Properties
\* ------------------------------------------------------------------------

\* C1: total + not_found never exceeds the number of predictions visited so
\* far, and when the loop has ended without its except clause having run,
\* total + not_found equals the number of predictions.
C1_TotalPlusNotFound ==
    /\ total + not_found <= i
    /\ (pc = "done" /\ ~raised) => total + not_found = Len(predictions)

C1_Witness ==
    /\ pc = "done"
    /\ ~raised
    /\ total >= 1
    /\ not_found >= 1

\* C2: no failure that arises while processing one prediction ends the run:
\* the run is never aborted once the loop has visited a prediction.
C2_NoExampleFailureEndsBatch == pc = "aborted" => i = 0

\* C3: once the external call of an example has failed, that example does
\* not increment total_count.
C3_FailedCallIsSkipped == [][call_status = "failed" => total' = total]_vars

\* An occurrence of sub in text starting at position p.
OccursAt(sub, text, p) ==
    /\ p >= 1
    /\ p + Len(sub) - 1 <= Len(text)
    /\ SubSeq(text, p, p + Len(sub) - 1) = sub

\* The text holds the negative token.
HasNegative(v, text) ==
    \E p \in 1..Len(text) : OccursAt(NegativeToken(v), text, p)

\* The text holds the positive token on its own, not as the tail of an
\* occurrence of the negative token.
HasPositive(v, text) ==
    \E p \in 1..Len(text) :
        /\ OccursAt(PositiveToken(v), text, p)
        /\ ~OccursAt(NegativeToken(v), text,
                     p - (Len(NegativeToken(v)) - Len(PositiveToken(v))))

\* C4: the score read off a judge response is 1 when the response holds only
\* the positive token, 0 when it holds only the negative token, both tokens
\* or neither, and is always 0 or 1.
C4_VerdictParsing ==
    (pc = "accum" /\ call_status = "ok") =>
        /\ score \in {0, 1}
        /\ (HasPositive(variant, answer) /\ ~HasNegative(variant, answer))
              => score = 1
        /\ (HasNegative(variant, answer) /\ ~HasPositive(variant, answer))
              => score = 0
        /\ (HasPositive(variant, answer) /\ HasNegative(variant, answer))
              => score = 0
        /\ (~HasPositive(variant, answer) /\ ~HasNegative(variant, answer))
              => score = 0

C4_Witness ==
    /\ pc = "accum"
    /\ call_status = "ok"
    /\ HasPositive(variant, answer)
    /\ HasNegative(variant, answer)
    /\ score = 0

\* C5: when total is 0 at finalization every reported metric is 0.
C5_ZeroTotalZeroMetrics ==
    (pc = "done" /\ total = 0) =>
        \A m \in DOMAIN report : report[m].num = 0

\* C6: every reported metric percentage lies within [0, 100].
C6_PercentagesBounded ==
    pc = "done" =>
        \A m \in DOMAIN report :
            /\ 0 <= report[m].num
            /\ report[m].num <= 100 * report[m].den

\* C7: when the except clause of evaluate_lotnlg or evaluate_fetaqa ends an
\* example, total and every running sum are what they were when the example
\* started.
C7_SkippedExampleLeavesNoTrace ==
    [][(/\ variant \in MetricVariants
        /\ pc # "loop"
        /\ pc' = "loop"
        /\ outcome' = "skipped")
       => (results' = snap.results /\ total' = snap.total)]_vars

\* C8: at most one external call is outstanding, and a call is issued only
\* if the pacing delay has run since the previous call completed.
C8_PacedCalls ==
    [][/\ outstanding' <= 1
       /\ (pc = "call" /\ pc' = "await") => paced]_vars

\* C9: visiting a prediction whose key is not in the index adds 1 to
\* not_found, invokes no scorer, and leaves total and every running sum
\* unchanged.
C9_UnmatchedOnlyCounted ==
    [][(pc = "loop" /\ i < Len(predictions) /\ Unmatched)
       => /\ not_found' = not_found + 1
          /\ total' = total
          /\ results' = results
          /\ ~invoked'
          /\ outstanding' = outstanding
          /\ pc' = "loop"]_vars

C9_Witness ==
    /\ outcome = "not_found"
    /\ not_found >= 1
    /\ total >= 1
    /\ \E m \in DOMAIN results : results[m] > 0

\* The index has been built.
IndexBuilt == pc # "start" /\ ~(pc = "aborted" /\ i = 0)

\* The string forms of the keys carried by gold records.
GoldKeyStrings ==
    {str(gold_data[j].key) :
        j \in {n \in 1..Len(gold_data) : gold_data[n].key.tag # "none"}}

\* C10: the index holds exactly the gold records that carry the key field,
\* each under the string form of its key, so a prediction keyed by that
\* string is never counted as not found.
C10_KeysJoinAsStrings ==
    IndexBuilt =>
        /\ DOMAIN csv_id_to_gold = GoldKeyStrings
        /\ \A k \in DOMAIN csv_id_to_gold : str(csv_id_to_gold[k].key) = k
        /\ outcome = "not_found" => CurKey \notin GoldKeyStrings

\* C11: applying the normalizer to its own result changes nothing.
C11_NormalizeIdempotent ==
    (pc = "clean" /\ Len(out) = 2) => out[2] = out[1]

\* The parenthesized labels that stand immediately before a colon.
ExplicitLabels(text) ==
    {SubSeq(text, p + 1, q - 1) :
        <<p, q>> \in {pq \in (1..Len(text)) \X (1..Len(text)) :
            /\ pq[2] > pq[1] + 1
            /\ text[pq[1]] = "("
            /\ MatchAt(<<")", ":">>, text, pq[2])
            /\ \A k \in (pq[1] + 1)..(pq[2] - 1) : text[k] # ")"}}

\* C12: when the prediction text holds a parenthesized label immediately
\* before a colon, the predicted type is that label, lower-cased and
\* trimmed, whatever keywords the text holds; otherwise it is the keyword
\* inference.
C12_ExplicitLabelOverrides ==
    pc = "typed" =>
        IF ExplicitLabels(pred_text) # {}
        THEN out.pred_type \in
                {Strip(Lower(l)) : l \in ExplicitLabels(pred_text)}
        ELSE out.pred_type = KeywordType(variant, pred_text)

\* C13: type_em is incremented exactly when the lower-cased predicted type
\* is a substring of the lower-cased gold label or the other way round.
C13_BidirectionalTypeMatch ==
    pc = "typed" =>
        LET p == Lower(out.pred_type)
            labels == gold_fields.logical_labels
            g == Lower(IF labels.list THEN labels.items[1] ELSE labels.value)
        IN (out.type_em = 1) <=> (In(p, g) \/ In(g, p))

\* C14: the table text embedded in a judge prompt has at most 1500
\* characters, the prediction and the reference at most 800 each, and a
\* list-valued prediction is embedded as its items joined by single spaces.
C14_PromptInputsBounded ==
    pc = "prompted" =>
        /\ out.table <= 1500
        /\ out.statement.len <= 800
        /\ "reference" \in DOMAIN out => out.reference <= 800
        /\ pred_text.list => out.statement.form = "joined"

\* The run has ended, with a report or without one.
Ended == pc \in {"done", "aborted"}

\* No prediction key is the string form of the key of a gold record.
NoKeyMatches ==
    \A a \in 1..Len(predictions) : KStr(predictions[a]) \notin GoldKeyStrings

\* C15: when no prediction key equals the key of any gold record, the run
\* ends with a report in which not_found = |P|, total = 0 and every metric
\* is 0.
C15_NothingMatches ==
    (Ended /\ NoKeyMatches) =>
        /\ pc = "done"
        /\ not_found = Len(predictions)
        /\ total = 0
        /\ \A m \in DOMAIN report : report[m].num = 0

\* C16: every visited prediction has ended in exactly one of not found,
\* scored and skipped; the run ends only with every prediction visited; and
\* the report is produced only then.
C16_EveryPredictionVisitedOnce ==
    /\ pc = "loop" => total + not_found + skipped = i
    /\ Ended => (pc = "done" /\ i = Len(predictions)
                 /\ total + not_found + skipped = Len(predictions))
    /\ report # <<>> => pc = "done"
====
